---- MODULE Spec2Model ----
(***************************************************************************)
(* Model of the Core5Engine of src/backend/ai_engine.py: the six feature   *)
(* analyzers, the quality assessor, the score fusion with the lifestyle    *)
(* bonus, the label and the analyze_image pipeline.                        *)
(*                                                                         *)
(* Number representation.  The program computes in IEEE doubles; the model *)
(* computes in exact decimal fixed point:                                  *)
(*   - a feature score is an integer number of tenths (70.0 -> 700);       *)
(*   - intermediate analyzer values and the composite base scores are in   *)
(*     hundredths (centi-points);                                          *)
(*   - sleep_hours is in tenths of an hour (8.5 h -> 85);                  *)
(*   - a quality sub-score is in units of 1/QUnit, overall confidence in   *)
(*     units of 1/(20*QUnit).                                              *)
(* The double rounding error of the program (at most one unit of the last  *)
(* place of an intermediate sum) is not modelled.                          *)
(***************************************************************************)
EXTENDS Integers, Sequences, FiniteSets, TLC

Min(a, b) == IF a <= b THEN a ELSE b
Max(a, b) == IF a >= b THEN a ELSE b

\* np.clip(x, lo, hi)
Clip(x, lo, hi) == Min(Max(x, lo), hi)

\* Optional values: None is the empty tuple, a present value x is <<x>>
None == << >>
Some(x) == <<x>>
Val(v) == v[1]

(***************************************************************************)
(* Routine dictionary.  A routine is a function from the keys that are     *)
(* present to their values; Get is dict.get(key, default).                 *)
(***************************************************************************)
Get(routine, key, default) == IF key \in DOMAIN routine THEN routine[key] ELSE default

(***************************************************************************)
(* Text.  A string is modelled as a sequence of tokens; Lower is           *)
(* str.lower() on a token and SubstringsOf gives the recognised keywords   *)
(* that are substrings of a lower-case token.  Contains(text, kw) is the   *)
(* Python test  kw in text  on an already lower-cased text.                *)
(***************************************************************************)
Lower(token) ==
    CASE token = "Retinol" -> "retinol"
      [] token = "Vitamin C" -> "vitamin c"
      [] token = "Sunscreen" -> "sunscreen"
      [] token = "Serum" -> "serum"
      [] OTHER -> token

SubstringsOf(token) ==
    CASE token = "ha_serum" -> {"ha_serum", "serum"}
      [] token = "copper_peptide" -> {"copper_peptide", "peptide"}
      [] token \in {"retinol", "tretinoin", "vitamin_c", "vitamin c", "ascorbic",
                    "sunscreen", "hyaluronic", "niacinamide", "nicotinamide",
                    "peptide", "aha", "alpha_hydroxy", "glycolic", "lactic",
                    "bha", "beta_hydroxy", "salicylic", "azelaic", "moisturizer",
                    "serum", "cleanser", "toner", "mask"} -> {token}
      [] OTHER -> {}

LowerText(text) == [i \in DOMAIN text |-> Lower(text[i])]

Contains(text, kw) == \E i \in DOMAIN text : kw \in SubstringsOf(text[i])

ContainsAny(text, kws) == \E kw \in kws : Contains(text, kw)

(***************************************************************************)
(* _calculate_enhanced_lifestyle_bonus                                     *)
(***************************************************************************)
\* mutant of SleepHoursBonus: the optimal bucket adds 65
SleepHoursBonusSteep(sleep_hours) ==
    IF sleep_hours > 0
    THEN IF sleep_hours >= 85 THEN 65
         ELSE IF sleep_hours >= 80 THEN 20
         ELSE IF sleep_hours >= 75 THEN 15
         ELSE IF sleep_hours >= 70 THEN 10
         ELSE IF sleep_hours >= 65 THEN 5
         ELSE IF sleep_hours >= 60 THEN 0
         ELSE IF sleep_hours >= 50 THEN -15
         ELSE -25
    ELSE 0

\* sleep-hours curve; sleep_hours in tenths of an hour
SleepHoursBonus(sleep_hours) ==
    IF sleep_hours > 0
    THEN IF sleep_hours >= 85 THEN 25
         ELSE IF sleep_hours >= 80 THEN 20
         ELSE IF sleep_hours >= 75 THEN 15
         ELSE IF sleep_hours >= 70 THEN 10
         ELSE IF sleep_hours >= 65 THEN 5
         ELSE IF sleep_hours >= 60 THEN 0
         ELSE IF sleep_hours >= 50 THEN -15
         ELSE -25
    ELSE 0

\* water-intake curve; glasses
WaterIntakeBonus(water_intake) ==
    IF water_intake > 0
    THEN IF water_intake >= 10 THEN 20
         ELSE IF water_intake >= 8 THEN 15
         ELSE IF water_intake >= 6 THEN 10
         ELSE IF water_intake >= 4 THEN 5
         ELSE -10
    ELSE 0

\* one iteration of the loop over skincare_products: the if/elif chain.
\* acc = [bonus, processed] holds skincare_bonus and processed_ingredients.
Counted(acc, points, category) ==
    [bonus |-> acc.bonus + points, processed |-> acc.processed \cup {category}]

ProductStep(acc, product_id) ==
    LET product_lower == LowerText(product_id)
        new(category) == category \notin acc.processed
    IN  IF ContainsAny(product_lower, {"retinol", "tretinoin"}) /\ new("retinol")
          THEN Counted(acc, 20, "retinol")
        ELSE IF ContainsAny(product_lower, {"vitamin_c", "vitamin c", "ascorbic"}) /\ new("vitamin_c")
          THEN Counted(acc, 15, "vitamin_c")
        ELSE IF Contains(product_lower, "sunscreen") /\ new("sunscreen")
          THEN Counted(acc, 15, "sunscreen")
        ELSE IF ContainsAny(product_lower, {"hyaluronic", "ha_serum"}) /\ new("hyaluronic")
          THEN Counted(acc, 12, "hyaluronic")
        ELSE IF ContainsAny(product_lower, {"niacinamide", "nicotinamide"}) /\ new("niacinamide")
          THEN Counted(acc, 10, "niacinamide")
        ELSE IF ContainsAny(product_lower, {"peptide", "copper_peptide"}) /\ new("peptide")
          THEN Counted(acc, 10, "peptide")
        ELSE IF ContainsAny(product_lower, {"aha", "alpha_hydroxy", "glycolic", "lactic"}) /\ new("aha")
          THEN Counted(acc, 8, "aha")
        ELSE IF ContainsAny(product_lower, {"bha", "beta_hydroxy", "salicylic"}) /\ new("bha")
          THEN Counted(acc, 8, "bha")
        ELSE IF Contains(product_lower, "azelaic") /\ new("azelaic")
          THEN Counted(acc, 8, "azelaic")
        ELSE IF Contains(product_lower, "moisturizer") /\ new("moisturizer")
          THEN Counted(acc, 6, "moisturizer")
        ELSE IF Contains(product_lower, "serum") /\ Cardinality(acc.processed) < 3
          THEN [acc EXCEPT !.bonus = @ + 4]
        ELSE IF Contains(product_lower, "cleanser") /\ new("cleanser")
          THEN Counted(acc, 3, "cleanser")
        ELSE IF Contains(product_lower, "toner") /\ new("toner")
          THEN Counted(acc, 4, "toner")
        ELSE IF Contains(product_lower, "mask") /\ new("mask")
          THEN Counted(acc, 5, "mask")
        ELSE acc

\* the loop  for product_id in skincare_products
RECURSIVE ProductLoop(_, _)
ProductLoop(acc, skincare_products) ==
    IF skincare_products = << >>
    THEN acc
    ELSE ProductLoop(ProductStep(acc, Head(skincare_products)), Tail(skincare_products))

\* the legacy product_used text: independent ifs, nothing is added to
\* processed_ingredients
LegacyBonus(acc, product_used_text) ==
    LET new(category) == category \notin acc.processed
    IN  IF product_used_text # << >>
        THEN (IF Contains(product_used_text, "vitamin c") /\ new("vitamin_c") THEN 15 ELSE 0)
           + (IF Contains(product_used_text, "retinol") /\ new("retinol") THEN 20 ELSE 0)
           + (IF Contains(product_used_text, "sunscreen") /\ new("sunscreen") THEN 15 ELSE 0)
           + (IF Contains(product_used_text, "moisturizer") /\ new("moisturizer") THEN 6 ELSE 0)
           + (IF Contains(product_used_text, "serum") /\ Cardinality(acc.processed) < 3 THEN 4 ELSE 0)
        ELSE 0

\* skincare_bonus before the cap, for a product list and a legacy text
RawSkincareBonus(skincare_products, product_used) ==
    LET acc == ProductLoop([bonus |-> 0, processed |-> {}], skincare_products)
    IN  acc.bonus + LegacyBonus(acc, LowerText(product_used))

\* mutant of SkincareBonus: the cap of 30 is missing
SkincareBonusNoCap(routine) ==
    RawSkincareBonus(Get(routine, "skincare_products", << >>), Get(routine, "product_used", << >>))

\* what the skincare block adds to bonus: min(skincare_bonus, 30)
SkincareBonus(routine) ==
    Min(RawSkincareBonus(Get(routine, "skincare_products", << >>),
                         Get(routine, "product_used", << >>)), 30)

\* screen time, alcohol, exercise, stress
HabitBonus(routine) ==
      (IF Get(routine, "screen_time_before_bed", 0) > 60 THEN -10 ELSE 0)
    + (IF Get(routine, "alcohol_consumed", FALSE) THEN -15 ELSE 0)
    + (IF Get(routine, "exercise_today", FALSE) THEN 8 ELSE 0)
    + (IF Get(routine, "stress_level", 5) > 7 THEN -12
       ELSE IF Get(routine, "stress_level", 5) < 3 THEN 8 ELSE 0)

\* mutant of CalculateEnhancedLifestyleBonus: the skincare block is not
\* restricted to score_type = 'skin'
LifestyleBonusSkincareAlways(routine, score_type) ==
      SleepHoursBonus(Get(routine, "sleep_hours", 0))
    + WaterIntakeBonus(Get(routine, "water_intake", 0))
    + SkincareBonus(routine)
    + HabitBonus(routine)

CalculateEnhancedLifestyleBonus(routine, score_type) ==
      SleepHoursBonus(Get(routine, "sleep_hours", 0))
    + WaterIntakeBonus(Get(routine, "water_intake", 0))
    + (IF score_type = "skin" THEN SkincareBonus(routine) ELSE 0)
    + HabitBonus(routine)

(***************************************************************************)
(* Score fusion.  features is a record of six scores in tenths.            *)
(***************************************************************************)
\* mutant of LifestyleBonusAdded: the factor 0.1 is missing
LifestyleBonusAddedUnscaled(routine, score_type) ==
    Min(1000, 100 * CalculateEnhancedLifestyleBonus(routine, score_type))

\* min(10, bonus * 0.1), in centi-points
LifestyleBonusAdded(routine, score_type) ==
    Min(1000, 10 * CalculateEnhancedLifestyleBonus(routine, score_type))

\* mutant of CalculateSleepScore: np.clip is missing
CalculateSleepScoreNoClip(feats, routine) ==
    (4 * feats.dark_circles + 3 * feats.puffiness + 3 * feats.brightness
       + LifestyleBonusAdded(routine, "sleep")) \div 100

\* mutant of CalculateSleepScore: the texture score leaks into the base score
CalculateSleepScoreWithTexture(feats, routine) ==
    Clip(4 * feats.dark_circles + 3 * feats.puffiness + 2 * feats.brightness
           + feats.texture + LifestyleBonusAdded(routine, "sleep"), 0, 10000) \div 100

\* _calculate_sleep_score: int(np.clip(base_score + lifestyle_bonus, 0, 100))
CalculateSleepScore(feats, routine) ==
    LET base_score == 4 * feats.dark_circles + 3 * feats.puffiness + 3 * feats.brightness
        lifestyle_bonus == LifestyleBonusAdded(routine, "sleep")
    IN  Clip(base_score + lifestyle_bonus, 0, 10000) \div 100

\* _calculate_skin_health_score
CalculateSkinHealthScore(feats, routine) ==
    LET base_score == 2 * feats.brightness + 2 * feats.wrinkles + 2 * feats.texture
                        + 2 * feats.pore_size + feats.puffiness + feats.dark_circles
        lifestyle_bonus == LifestyleBonusAdded(routine, "skin")
    IN  Clip(base_score + lifestyle_bonus, 0, 10000) \div 100

\* mutant of GenerateFunLabel: the 70 band starts at 75
GenerateFunLabelShifted(sleep, skin) ==
    IF sleep + skin >= 160 THEN "Glow Queen"
    ELSE IF sleep + skin >= 150 THEN "Glow Up"
    ELSE IF sleep + skin >= 100 THEN "Getting There"
    ELSE IF sleep + skin >= 60 THEN "Needs Care"
    ELSE "Focus Time"

\* _generate_fun_label: avg_score = (sleep + skin) / 2 compared with 80, 70,
\* 50, 30, written on the doubled average.  The labels are the source's
\* strings without their emoji.
GenerateFunLabel(sleep, skin) ==
    IF sleep + skin >= 160 THEN "Glow Queen"
    ELSE IF sleep + skin >= 140 THEN "Glow Up"
    ELSE IF sleep + skin >= 100 THEN "Getting There"
    ELSE IF sleep + skin >= 60 THEN "Needs Care"
    ELSE "Focus Time"

(***************************************************************************)
(* Regions.  A grey-level region (the result of cv2.cvtColor(region,       *)
(* COLOR_RGB2GRAY)) is a sequence of rows of pixel values 0..255; the      *)
(* empty region is the empty sequence.                                     *)
(***************************************************************************)
RECURSIVE Flatten(_)
Flatten(rows) == IF rows = << >> THEN << >> ELSE Head(rows) \o Flatten(Tail(rows))

RECURSIVE SumSeq(_)
SumSeq(s) == IF s = << >> THEN 0 ELSE Head(s) + SumSeq(Tail(s))

RECURSIVE SumSquares(_)
SumSquares(s) == IF s = << >> THEN 0 ELSE Head(s) * Head(s) + SumSquares(Tail(s))

RECURSIVE MaxSeq(_)
MaxSeq(s) == IF s = << >> THEN 0 ELSE Max(Head(s), MaxSeq(Tail(s)))

\* region.size
Size(rows) == Len(Flatten(rows))

\* gray[int(h*0.6):, :], the bottom 40% of the rows; the whole region when
\* that slice is empty
LowerPart(gray) ==
    LET h == Len(gray)
        lower == SubSeq(gray, (h * 6) \div 10 + 1, h)
    IN  IF Size(lower) = 0 THEN gray ELSE lower

\* floor of the square root, by bisection
RECURSIVE SqrtSearch(_, _, _)
SqrtSearch(n, lo, hi) ==
    IF lo >= hi
    THEN lo
    ELSE LET mid == (lo + hi + 1) \div 2
         IN  IF mid * mid <= n THEN SqrtSearch(n, mid, hi) ELSE SqrtSearch(n, lo, mid - 1)

ISqrt(n) == SqrtSearch(n, 0, Min(n, 46340))

\* np.mean, np.var, np.std of a non-empty pixel sequence, in hundredths
MeanC(px) == (100 * SumSeq(px)) \div Len(px)
VarC(px) == (100 * (Len(px) * SumSquares(px) - SumSeq(px) * SumSeq(px))) \div (Len(px) * Len(px))
StdC(px) == ISqrt(100 * VarC(px))

\* np.sum(px < mean - std): p < mean - std  iff  0 < S - n*p and
\* n*Q - S^2 < (S - n*p)^2, with S the sum and Q the sum of squares
DarkPixels(px) ==
    LET n == Len(px)
        S == SumSeq(px)
        D == n * SumSquares(px) - S * S
    IN  Cardinality({i \in DOMAIN px : S - n * px[i] > 0 /\ D < (S - n * px[i]) * (S - n * px[i])})

\* round(final_score, 1): hundredths to tenths
Round1(c) == (c + 5) \div 10

\* the "no region" default 50.0
NoRegionScore == 500

(***************************************************************************)
(* The six feature analyzers.  Each returns a score in tenths.             *)
(***************************************************************************)
\* the weighted sum plus the variation term of _analyze_dark_circles, before
\* the clamp; in hundredths
DarkCirclesRaw(eye_region) ==
    LET px == Flatten(LowerPart(eye_region))
        mean_brightness == MeanC(px)
        brightness_std == StdC(px)
        texture_variance == VarC(px)
        brightness_score == Min((100 * mean_brightness) \div 255, 10000)
        dark_score == Max(0, 10000 - (20000 * DarkPixels(px)) \div Len(px))
        texture_score == Max(0, 10000 - texture_variance \div 100)
        final_score == (50 * brightness_score + 30 * dark_score + 20 * texture_score) \div 100
        variation == (mean_brightness + brightness_std + texture_variance) \div 50 - 1000
    IN  final_score + variation

\* mutant of AnalyzeDarkCircles: the clamp to [25, 90] is missing
AnalyzeDarkCirclesNoClamp(eye_region) ==
    IF Size(eye_region) = 0 THEN NoRegionScore ELSE Round1(DarkCirclesRaw(eye_region))

\* _analyze_dark_circles
AnalyzeDarkCircles(eye_region) ==
    IF Size(eye_region) = 0
    THEN NoRegionScore
    ELSE Round1(Max(2500, Min(9000, DarkCirclesRaw(eye_region))))

\* _analyze_puffiness.  cv holds what cv2 measures on the lower eye region:
\* avg_gradient (hundredths), laplacian_variance, roundness_factor (percent)
PuffinessRaw(eye_region, cv) ==
    LET px == Flatten(LowerPart(eye_region))
        texture_variance == VarC(px)
        texture_score == Min(texture_variance \div 50, 10000)
        gradient_score == Min(cv.avg_gradient * 10, 10000)
        laplacian_score == Max(0, 10000 - cv.laplacian_variance * 10)
        roundness_score == Max(0, 10000 - cv.roundness_factor * 100)
        final_score == (30 * texture_score + 30 * gradient_score + 20 * laplacian_score
                          + 20 * roundness_score) \div 100
        variation == (3 * (texture_variance + cv.avg_gradient + 100 * cv.laplacian_variance)) \div 100 - 750
    IN  final_score + variation

AnalyzePuffiness(eye_region, cv) ==
    IF Size(eye_region) = 0
    THEN NoRegionScore
    ELSE Round1(Max(2000, Min(8500, PuffinessRaw(eye_region, cv))))

\* mutant of BrightnessRaw: the uniformity term is missing
BrightnessRawNoUniformity(m) ==
    LET brightness_score == Min((m.mean_brightness * 10000) \div 255, 10000)
        evenness_score == Max(0, 10000 - (m.h_variance + m.s_variance) \div 2)
        distribution_score == Max(0, 10000 - m.brightness_peaks * 1000)
        final_score == (50 * brightness_score + 15 * evenness_score
                          + 10 * distribution_score) \div 100
        variation == (12 * (m.mean_brightness + m.brightness_std + m.h_variance + m.s_variance)) \div 10 - 600
    IN  final_score + variation

\* mutant of BrightnessRaw: the base score falls with the mean lightness
BrightnessRawDullIsBright(m) ==
    LET brightness_score == Max(10000 - (m.mean_brightness * 10000) \div 255, 0)
        uniformity_score == Max(0, 10000 - (m.brightness_std * 100) \div 3)
        evenness_score == Max(0, 10000 - (m.h_variance + m.s_variance) \div 2)
        distribution_score == Max(0, 10000 - m.brightness_peaks * 1000)
        final_score == (50 * brightness_score + 25 * uniformity_score + 15 * evenness_score
                          + 10 * distribution_score) \div 100
        variation == (12 * (m.mean_brightness + m.brightness_std + m.h_variance + m.s_variance)) \div 10 - 600
    IN  final_score + variation

\* _analyze_brightness.  m holds the measurements on the face region: empty,
\* mean_brightness, brightness_std, h_variance, s_variance, brightness_peaks
BrightnessRaw(m) ==
    LET brightness_score == Min((m.mean_brightness * 10000) \div 255, 10000)
        uniformity_score == Max(0, 10000 - (m.brightness_std * 100) \div 3)
        evenness_score == Max(0, 10000 - (m.h_variance + m.s_variance) \div 2)
        distribution_score == Max(0, 10000 - m.brightness_peaks * 1000)
        final_score == (50 * brightness_score + 25 * uniformity_score + 15 * evenness_score
                          + 10 * distribution_score) \div 100
        variation == (12 * (m.mean_brightness + m.brightness_std + m.h_variance + m.s_variance)) \div 10 - 600
    IN  final_score + variation

\* mutant of AnalyzeBrightness: the upper clamp 95 is missing
AnalyzeBrightnessNoUpperClamp(m) ==
    IF m.empty THEN NoRegionScore ELSE Round1(Max(1500, BrightnessRaw(m)))

AnalyzeBrightness(m) ==
    IF m.empty THEN NoRegionScore ELSE Round1(Max(1500, Min(9500, BrightnessRaw(m))))

\* _analyze_wrinkles.  m holds the measurements on the forehead region: empty,
\* the densities edge_density_canny, edge_density_sobel,
\* edge_density_laplacian, horizontal_line_density, vertical_line_density
\* (all per mille), texture_variance, avg_gradient
WrinklesRaw(m) ==
    LET edge_score_canny == Max(0, 10000 - m.edge_density_canny * 100)
        edge_score_sobel == Max(0, 10000 - m.edge_density_sobel * 50)
        edge_score_laplacian == Max(0, 10000 - m.edge_density_laplacian * 80)
        texture_score == Max(0, 10000 - (m.texture_variance * 100) \div 80)
        gradient_score == Max(0, 10000 - m.avg_gradient * 25)
        line_score == Max(0, 10000 - (m.horizontal_line_density + m.vertical_line_density) * 100)
        final_score == (25 * edge_score_canny + 15 * edge_score_sobel + 15 * edge_score_laplacian
                          + 25 * texture_score + 15 * gradient_score + 5 * line_score) \div 100
        variation == (18 * (1000 * (m.texture_variance + m.avg_gradient)
                              + m.edge_density_canny + m.edge_density_sobel)) \div 10000 - 900
    IN  final_score + variation

AnalyzeWrinkles(m) ==
    IF m.empty THEN NoRegionScore ELSE Round1(Max(1000, Min(9000, WrinklesRaw(m))))

\* _analyze_texture.  m holds the measurements on the cheek region: empty,
\* avg_gradient, max_gradient, laplacian_variance, laplacian_mean, std_dev,
\* lbp_variance, gabor_variance
TextureRaw(m) ==
    LET gradient_score == Max(0, 10000 - (m.avg_gradient * 200) \div 3)
        max_gradient_score == Max(0, 10000 - m.max_gradient * 20)
        laplacian_score == Max(0, 10000 - (m.laplacian_variance * 100) \div 80)
        laplacian_mean_score == Max(0, 10000 - (m.laplacian_mean * 100) \div 3)
        std_score == Max(0, 10000 - m.std_dev * 50)
        lbp_score == IF m.lbp_variance > 0 THEN Max(0, 10000 - m.lbp_variance * 2) ELSE 5000
        gabor_score == IF m.gabor_variance > 0 THEN Max(0, 10000 - m.gabor_variance) ELSE 5000
        final_score == (25 * gradient_score + 15 * max_gradient_score + 20 * laplacian_score
                          + 10 * laplacian_mean_score + 20 * std_score + 5 * lbp_score
                          + 5 * gabor_score) \div 100
        variation == (15 * (m.avg_gradient + m.laplacian_variance + m.std_dev + m.lbp_variance
                              + m.gabor_variance)) \div 10 - 750
    IN  final_score + variation

AnalyzeTexture(m) ==
    IF m.empty THEN NoRegionScore ELSE Round1(Max(2000, Min(9000, TextureRaw(m))))

\* _analyze_pore_size.  m holds the measurements on the pore region: empty,
\* pores (the areas returned by the three _detect_pores_at_scale calls,
\* concatenated), region_area, texture_variance, avg_gradient
PoreSizeRaw(m) ==
    LET total_pores == Len(m.pores)
        avg_pore_size == IF total_pores > 0 THEN (100 * SumSeq(m.pores)) \div total_pores ELSE 0
        max_pore_size == IF total_pores > 0 THEN MaxSeq(m.pores) ELSE 0
        pore_density == (total_pores * 1000000) \div m.region_area
        density_score == Max(0, 10000 - pore_density * 2)
        size_score == IF avg_pore_size > 0 THEN Max(0, 10000 - avg_pore_size * 2) ELSE 10000
        max_size_score == IF max_pore_size > 0 THEN Max(0, 10000 - max_pore_size * 150) ELSE 10000
        texture_score == Max(0, 10000 - (m.texture_variance * 100) \div 60)
        gradient_score == Max(0, 10000 - m.avg_gradient * 50)
        final_score == (30 * density_score + 25 * size_score + 20 * max_size_score
                          + 15 * texture_score + 10 * gradient_score) \div 100
        variation == (12 * (pore_density + avg_pore_size + 100 * m.texture_variance
                              + 100 * m.avg_gradient)) \div 1000 - 600
    IN  final_score + variation

AnalyzePoreSize(m) ==
    IF m.empty THEN NoRegionScore ELSE Round1(Max(1500, Min(8500, PoreSizeRaw(m))))

(***************************************************************************)
(* Quality assessment.  A sub-score q in [0,1] is the integer q * QUnit.   *)
(***************************************************************************)
QUnit == 60000

\* mutant of AssessImageSharpness: the cap at 1.0 is missing
AssessImageSharpnessNoCap(laplacian_var) == (laplacian_var * QUnit) \div 500

\* _assess_image_sharpness: min(laplacian_var / 500.0, 1.0)
AssessImageSharpness(laplacian_var) == Min((laplacian_var * QUnit) \div 500, QUnit)

\* _assess_lighting_quality: overexposed and underexposed are the fractions
\* of pixels above 240 and below 20, in percent; contrast is gray.std()
AssessLightingQuality(overexposed, underexposed, contrast) ==
    Max(((100 - (overexposed + underexposed)) * Min(contrast, 50) * QUnit) \div 5000, 0)

\* _assess_face_detection_quality: x_spread and y_spread are the standard
\* deviations of the landmark coordinates, in thousandths
AssessFaceDetectionQuality(x_spread, y_spread) ==
    Min(((x_spread + y_spread) * QUnit) \div 400, QUnit)

\* list(features.values())
FeatureNames == <<"dark_circles", "puffiness", "brightness", "wrinkles", "texture", "pore_size">>

\* the values of the keys the dictionary has, in the order of insertion
FeatureValues(feats) ==
    LET Has(name) == name \in DOMAIN feats
        names == SelectSeq(FeatureNames, Has)
    IN  [i \in DOMAIN names |-> feats[names[i]]]

\* the double not-a-number, written as an integer outside every range of the
\* model
NaN == -2000000

\* mutant of Outliers: the threshold is 2 instead of 3
OutliersAboveTwo(values) ==
    LET n == Len(values)
        S == SumSeq(values)
        D == n * SumSquares(values) - S * S
    IN  Cardinality({i \in DOMAIN values : (n * values[i] - S) * (n * values[i] - S) > 4 * D})

\* np.sum(z_scores > 3) with z = |v - mean| / (std + 1e-7): for n values with
\* sum S and sum of squares Q,  |v - mean| > 3 * std  iff
\* (n*v - S)^2 > 9 * (n*Q - S^2).  The 1e-7 only raises the threshold, by
\* less than the smallest gap between the two integer sides.
Outliers(values) ==
    LET n == Len(values)
        S == SumSeq(values)
        D == n * SumSquares(values) - S * S
    IN  Cardinality({i \in DOMAIN values : (n * values[i] - S) * (n * values[i] - S) > 9 * D})

\* _assess_feature_consistency.  For an empty list np.sum(z_scores > 3) is the
\* numpy integer 0 and 0 / len(feature_values) is nan (numpy scalars do not
\* raise ZeroDivisionError); 1.0 - nan is nan and max(nan, 0.0) returns its
\* first argument, because 0.0 > nan is false.
AssessFeatureConsistency(feats) ==
    LET feature_values == FeatureValues(feats)
    IN  IF Len(feature_values) = 0
        THEN NaN
        ELSE Max(QUnit - (Outliers(feature_values) * QUnit) \div Len(feature_values), 0)

\* _assess_analysis_quality.  overall_confidence is in units of 1/(20*QUnit):
\* the weights 0.25, 0.25, 0.3, 0.2 are 5/20, 5/20, 6/20, 4/20.
AssessAnalysisQuality(img, lm, feats) ==
    LET image_sharpness == AssessImageSharpness(img.laplacian_var)
        lighting_quality == AssessLightingQuality(img.overexposed, img.underexposed, img.contrast)
        face_detection_confidence == AssessFaceDetectionQuality(lm.x_spread, lm.y_spread)
        feature_consistency == AssessFeatureConsistency(feats)
        overall_confidence == 5 * image_sharpness + 5 * lighting_quality
                                + 6 * face_detection_confidence + 4 * feature_consistency
    IN  [overall_confidence |-> IF feature_consistency = NaN
                                THEN NaN
                                ELSE Min(Max(overall_confidence, 0), 20 * QUnit),
         image_sharpness |-> image_sharpness,
         lighting_quality |-> lighting_quality,
         face_detection_confidence |-> face_detection_confidence,
         feature_consistency |-> feature_consistency]

(***************************************************************************)
(* Inputs.                                                                 *)
(***************************************************************************)
\* longest skincare_products list
MaxProducts == 2
\* eye regions have up to MaxEyeRows rows of two pixels
MaxEyeRows == 3

GrayLevels == {0, 100, 255}

RECURSIVE SeqsUpTo(_, _)
SeqsUpTo(S, n) ==
    IF n = 0
    THEN {<< >>}
    ELSE LET shorter == SeqsUpTo(S, n - 1)
         IN  shorter \cup {Append(s, x) : s \in {t \in shorter : Len(t) = n - 1}, x \in S}

EyeRows == {<<a, b>> : a, b \in GrayLevels}
EyeRegions == SeqsUpTo(EyeRows, MaxEyeRows)

\* a region of one grey level
UniformRegion(g) == [i \in 1..MaxEyeRows |-> <<g, g>>]

\* what cv2 measures on the lower eye region; all zero on a uniform region
PuffinessCv ==
    [avg_gradient : {0, 800, 30000}, laplacian_variance : {0, 400, 20000},
     roundness_factor : {0, 50, 100}]

IsUniform(region) == \A i, j \in DOMAIN Flatten(region) : Flatten(region)[i] = Flatten(region)[j]

\* the measurements that belong to a uniform image region
FlatPuffiness == [avg_gradient |-> 0, laplacian_variance |-> 0, roundness_factor |-> 0]

\* the variance of n values in 0..255 with mean m is at most m * (255 - m)
BrightnessMeasures ==
    {m \in [empty : BOOLEAN, mean_brightness : {0, 60, 128, 255}, brightness_std : {0, 40, 127},
            h_variance : {0, 3000}, s_variance : {0, 9000}, brightness_peaks : {1, 4, 12}] :
        m.brightness_std * m.brightness_std <= m.mean_brightness * (255 - m.mean_brightness)}

FlatBrightness(L) ==
    [empty |-> FALSE, mean_brightness |-> L, brightness_std |-> 0, h_variance |-> 0,
     s_variance |-> 0, brightness_peaks |-> 1]

WrinklesMeasures ==
    {m \in [empty : BOOLEAN, edge_density_canny : {0, 40, 300}, edge_density_sobel : {0, 200},
            edge_density_laplacian : {0, 150}, horizontal_line_density : {0, 20},
            vertical_line_density : {0, 20}, texture_variance : {0, 900, 16000},
            avg_gradient : {0, 60, 700}] :
        /\ m.texture_variance = 0 =>
             m.edge_density_canny + m.edge_density_sobel + m.edge_density_laplacian + m.avg_gradient = 0
        /\ m.horizontal_line_density + m.vertical_line_density <= 2 * m.edge_density_canny}

FlatWrinkles ==
    [empty |-> FALSE, edge_density_canny |-> 0, edge_density_sobel |-> 0,
     edge_density_laplacian |-> 0, horizontal_line_density |-> 0, vertical_line_density |-> 0,
     texture_variance |-> 0, avg_gradient |-> 0]

TextureMeasures ==
    {m \in [empty : BOOLEAN, avg_gradient : {0, 30, 400}, max_gradient : {0, 200, 1400},
            laplacian_variance : {0, 500, 9000}, laplacian_mean : {0, 20, 300},
            std_dev : {0, 25, 127}, lbp_variance : {0, 8}, gabor_variance : {0, 2000}] :
        /\ m.avg_gradient <= m.max_gradient
        /\ m.std_dev = 0 =>
             m.max_gradient + m.laplacian_variance + m.laplacian_mean + m.lbp_variance
               + m.gabor_variance = 0
        /\ (m.avg_gradient = 0) = (m.max_gradient = 0)
        /\ (m.laplacian_variance = 0) => (m.laplacian_mean = 0 \/ m.std_dev > 0)}

FlatTexture ==
    [empty |-> FALSE, avg_gradient |-> 0, max_gradient |-> 0, laplacian_variance |-> 0,
     laplacian_mean |-> 0, std_dev |-> 0, lbp_variance |-> 0, gabor_variance |-> 0]

\* pore areas lie strictly between 2*scale and 50*scale, scale <= 3
PoreMeasures ==
    {m \in [empty : BOOLEAN, pores : SeqsUpTo({3, 40, 149}, 2), region_area : {400, 10000},
            texture_variance : {0, 600, 16000}, avg_gradient : {0, 50, 700}] :
        m.texture_variance = 0 => (m.pores = << >> /\ m.avg_gradient = 0)}

FlatPore ==
    [empty |-> FALSE, pores |-> << >>, region_area |-> 10000, texture_variance |-> 0,
     avg_gradient |-> 0]

\* The decoded image stands for what numpy, cv2 and skimage measure on it and
\* on the regions cut out of it with the detected landmarks: eye and puffiness
\* belong to the eye box, forehead, cheek and pore to their boxes, and face,
\* face_gray, face_puffiness, face_wrinkles, face_texture and face_pore to the
\* face box (what each analyzer measures on the whole-face region).
\* a uniform image of grey level g, lightness L: no gradients, edges or pores.
\* local_binary_pattern reads 0 outside the region, so the pixels on the border
\* of a region that is not black get another pattern than the inner ones and
\* lbp_variance is a small positive number.
UniformImage(g, L) ==
    [eye |-> UniformRegion(g), puffiness |-> FlatPuffiness, face |-> FlatBrightness(L),
     face_gray |-> UniformRegion(g), face_puffiness |-> FlatPuffiness,
     face_wrinkles |-> FlatWrinkles,
     face_texture |-> [FlatTexture EXCEPT !.lbp_variance = IF g > 0 THEN 1 ELSE 0],
     face_pore |-> FlatPore,
     forehead |-> FlatWrinkles,
     cheek |-> [FlatTexture EXCEPT !.lbp_variance = IF g > 0 THEN 1 ELSE 0],
     pore |-> FlatPore,
     laplacian_var |-> 0,
     overexposed |-> IF g > 240 THEN 100 ELSE 0,
     underexposed |-> IF g < 20 THEN 100 ELSE 0,
     contrast |-> 0]

\* a sharp, evenly lit portrait
PortraitImage ==
    [eye |-> <<<<255, 255>>, <<100, 100>>, <<100, 100>>>>,
     puffiness |-> [avg_gradient |-> 800, laplacian_variance |-> 400, roundness_factor |-> 50],
     face |-> [empty |-> FALSE, mean_brightness |-> 128, brightness_std |-> 40,
               h_variance |-> 3000, s_variance |-> 9000, brightness_peaks |-> 4],
     face_gray |-> <<<<100, 255>>, <<100, 100>>, <<0, 100>>>>,
     face_puffiness |-> [avg_gradient |-> 800, laplacian_variance |-> 400,
                         roundness_factor |-> 50],
     face_wrinkles |-> [empty |-> FALSE, edge_density_canny |-> 40, edge_density_sobel |-> 200,
                        edge_density_laplacian |-> 0, horizontal_line_density |-> 0,
                        vertical_line_density |-> 0, texture_variance |-> 900,
                        avg_gradient |-> 60],
     face_texture |-> [empty |-> FALSE, avg_gradient |-> 30, max_gradient |-> 200,
                       laplacian_variance |-> 500, laplacian_mean |-> 20, std_dev |-> 25,
                       lbp_variance |-> 8, gabor_variance |-> 2000],
     face_pore |-> [empty |-> FALSE, pores |-> <<3, 40>>, region_area |-> 10000,
                    texture_variance |-> 600, avg_gradient |-> 50],
     forehead |-> [empty |-> FALSE, edge_density_canny |-> 40, edge_density_sobel |-> 0,
                   edge_density_laplacian |-> 0, horizontal_line_density |-> 0,
                   vertical_line_density |-> 0, texture_variance |-> 900, avg_gradient |-> 60],
     cheek |-> [empty |-> FALSE, avg_gradient |-> 30, max_gradient |-> 200,
                laplacian_variance |-> 500, laplacian_mean |-> 20, std_dev |-> 25,
                lbp_variance |-> 8, gabor_variance |-> 2000],
     pore |-> [empty |-> FALSE, pores |-> <<3, 40>>, region_area |-> 10000,
               texture_variance |-> 600, avg_gradient |-> 50],
     laplacian_var |-> 800, overexposed |-> 5, underexposed |-> 10, contrast |-> 45]

\* a blurred portrait whose forehead, cheek and pore boxes are empty
BlurredImage ==
    [PortraitImage EXCEPT !.forehead.empty = TRUE, !.cheek.empty = TRUE, !.pore.empty = TRUE,
                          !.laplacian_var = 100, !.contrast = 60, !.overexposed = 0]

\* a portrait whose landmarks lie outside the frame: every box is empty, the
\* face box included
OffFrameImage ==
    [BlurredImage EXCEPT !.eye = << >>, !.face_gray = << >>, !.face.empty = TRUE,
                         !.face_wrinkles.empty = TRUE, !.face_texture.empty = TRUE,
                         !.face_pore.empty = TRUE]

PipelineImages == {UniformImage(0, 0), UniformImage(255, 255), PortraitImage, BlurredImage}

\* one region's measurements vary, the others are those of the portrait
AnalyzerImages ==
         {[PortraitImage EXCEPT !.eye = e,
                                !.puffiness = IF IsUniform(e) THEN FlatPuffiness ELSE @] :
             e \in EyeRegions}
    \cup {[PortraitImage EXCEPT !.puffiness = c] : c \in PuffinessCv}
    \cup {[PortraitImage EXCEPT !.face = m] : m \in BrightnessMeasures}
    \cup {[PortraitImage EXCEPT !.forehead = m] : m \in WrinklesMeasures}
    \cup {[PortraitImage EXCEPT !.cheek = m] : m \in TextureMeasures}
    \cup {[PortraitImage EXCEPT !.pore = m] : m \in PoreMeasures}

\* the landmark array, by the spread np.std(landmarks, axis=0) of its x and y
\* coordinates in thousandths, by its number of points len(landmarks) (FaceMesh
\* with refine_landmarks=True returns 478), and by the padded bounding box of
\* its eye points: "empty" when x_max <= x_min or y_max <= y_min
LandmarkArrays ==
    [x_spread : {0, 120, 250}, y_spread : {0, 150, 300}, points : {478}, eye_box : {"valid"}]

FaceLandmarks == [x_spread |-> 120, y_spread |-> 150, points |-> 478, eye_box |-> "valid"]

\* landmark arrays of other schemes, as the analyzers get them when they are
\* called with a keypoint set of the caller (test_algorithms.py passes 33 points)
KeypointSets ==
         {[FaceLandmarks EXCEPT !.points = n] : n \in {0, 5, 8, 33, 468}}
    \cup {[FaceLandmarks EXCEPT !.eye_box = "empty"]}

(***************************************************************************)
(* Region extraction.                                                      *)
(***************************************************************************)
EyeIndices ==
    {33, 7, 163, 144, 145, 153, 154, 155, 133, 173, 157, 158, 159, 160, 161, 246,
     362, 382, 381, 380, 374, 373, 390, 249, 263, 466, 388, 387, 386, 385, 384, 398}

ForeheadIndices == {10, 151, 9, 8, 107, 55, 65, 52, 53, 46}

CheekIndices ==
    {116, 117, 118, 119, 120, 121, 126, 142, 36, 205, 206, 207, 213, 192, 147, 187}

PoreIndices == CheekIndices \cup {168, 8, 9, 10, 151, 107, 55, 65, 52, 53, 46}

\* [idx for idx in indices if idx < len(landmarks)]
ValidIndices(indices, lm) == {idx \in indices : idx < lm.points}

\* _extract_eye_region: the face region when no eye index is valid or the
\* padded box of the eye points is empty
UsesFaceRegion(lm) == ValidIndices(EyeIndices, lm) = {} \/ lm.eye_box = "empty"

ExtractEyeRegion(img, lm) == IF UsesFaceRegion(lm) THEN img.face_gray ELSE img.eye

\* the exception raised by the region extractors in the order _analyze_features
\* calls them, "none" if none: np.min of an empty array raises ValueError in
\* _extract_face_region, and landmarks[indices] raises IndexError in
\* _extract_forehead_region, _extract_cheek_region and _extract_pore_region
\* when an index is not below len(landmarks)
ExtractionError(lm) ==
    IF lm.points = 0 THEN "ValueError"
    ELSE IF \E idx \in ForeheadIndices \cup CheekIndices \cup PoreIndices : idx >= lm.points
         THEN "IndexError"
    ELSE "none"

(***************************************************************************)
(* The resize of _bytes_to_cv2.                                            *)
(***************************************************************************)
\* heights and widths of decoded images
Sides == {97, 150, 194, 199, 200, 300}

Shapes == Sides \X Sides

\* the pairs <<d, s>> of Sides with s < 200 for which the double product
\* d * (200 / s) lies below the integer 200 * d / s: 97 * (200 / 97) and
\* 199 * (200 / 199) are 199.99999999999997, 194 * (200 / 97) is
\* 399.99999999999994.  For every other pair the integer part of the double
\* product is the integer part of the exact quotient.
RoundedBelow == {<<97, 97>>, <<194, 97>>, <<97, 194>>, <<194, 194>>, <<199, 199>>}

\* int(d * scale) for scale = max(200/h, 200/w), which is the double 200 / s
\* for the shorter side s
ScaledSide(d, s) ==
    IF <<d, s>> \in RoundedBelow THEN (200 * d) \div s - 1 ELSE (200 * d) \div s

\* image.shape[:2] when _bytes_to_cv2 returns: resized if h < 200 or w < 200
Resized(shape) ==
    LET h == shape[1]
        w == shape[2]
    IN  IF h < 200 \/ w < 200
        THEN <<ScaledSide(h, Min(h, w)), ScaledSide(w, Min(h, w))>>
        ELSE shape

\* image_data: kind says what the bytes are ("image": an image in a supported
\* format, "undecodable": bytes in no supported format, "empty": zero bytes,
\* "raises": an image on which cvtColor or resize raises); faces is the number
\* of faces the detector finds; shape is the height and width of the decoded
\* image
ImageDatas ==
         [kind : {"image"}, faces : {1}, content : PipelineImages, landmarks : LandmarkArrays,
          shape : {<<300, 300>>}]
    \cup [kind : {"image"}, faces : {0}, content : PipelineImages, landmarks : {FaceLandmarks},
          shape : {<<300, 300>>}]
    \cup [kind : {"undecodable", "empty", "raises"}, faces : {0}, content : {UniformImage(0, 0)},
          landmarks : {FaceLandmarks}, shape : {<<300, 300>>}]
    \cup [kind : {"image"}, faces : {1}, content : {PortraitImage}, landmarks : {FaceLandmarks},
          shape : Shapes]

DefaultImageData ==
    [kind |-> "image", faces |-> 1, content |-> PortraitImage, landmarks |-> FaceLandmarks,
     shape |-> <<300, 300>>]

\* a key that may be absent: the empty routine or the routine with that key
Opt(key, values) == {<< >>} \cup {key :> v : v \in values}

ProductIds ==
    {<<"Retinol">>, <<"retinol", "Vitamin C">>, <<"serum">>, <<"ha_serum">>, <<"Sunscreen">>,
     <<"moisturizer">>, <<"lip balm">>}

ProductTexts == {<< >>, <<"Vitamin C", "Serum">>, <<"retinol">>, <<"sunscreen", "moisturizer">>}

BestHabits ==
    ("sleep_hours" :> 90) @@ ("water_intake" :> 10) @@ ("exercise_today" :> TRUE)
      @@ ("stress_level" :> 1)

WorstHabits ==
    ("sleep_hours" :> 45) @@ ("water_intake" :> 2) @@ ("screen_time_before_bed" :> 90)
      @@ ("alcohol_consumed" :> TRUE) @@ ("stress_level" :> 9)

\* the routine of the end-to-end scenario: 9 hours of sleep, 10 glasses
ScenarioRoutine == ("sleep_hours" :> 90) @@ ("water_intake" :> 10)

SkincareRoutines ==
    {h @@ p @@ t : h \in {<< >>, BestHabits},
                   p \in Opt("skincare_products", SeqsUpTo(ProductIds, MaxProducts)),
                   t \in Opt("product_used", ProductTexts)}

HabitRoutines ==
    {a @@ b @@ c @@ d @@ e @@ f :
        a \in Opt("sleep_hours", {0, 45, 50, 60, 65, 70, 75, 80, 85, 90}),
        b \in Opt("water_intake", {0, 2, 4, 6, 8, 10}),
        c \in Opt("screen_time_before_bed", {30, 90}),
        d \in Opt("alcohol_consumed", {TRUE}),
        e \in Opt("exercise_today", {TRUE}),
        f \in Opt("stress_level", {1, 5, 9})}

Routines == SkincareRoutines \cup HabitRoutines

FusionRoutines ==
    {<< >>, ScenarioRoutine, BestHabits, WorstHabits,
     BestHabits @@ ("skincare_products" :> <<<<"Retinol">>, <<"Sunscreen">>>>),
     WorstHabits @@ ("product_used" :> <<"retinol">>)}

ScoreLevels == {0, 355, 1000}

FeatureRecords ==
    [dark_circles : ScoreLevels, puffiness : ScoreLevels, brightness : ScoreLevels,
     wrinkles : ScoreLevels, texture : ScoreLevels, pore_size : ScoreLevels]

AllEqual(v) ==
    [dark_circles |-> v, puffiness |-> v, brightness |-> v, wrinkles |-> v, texture |-> v,
     pore_size |-> v]

(***************************************************************************)
(* The engine object: __init__ and _load_models.                           *)
(***************************************************************************)
\* calls of analyze_image on one engine
MaxCalls == 2

ModelNames ==
    {"dark_circles_model", "puffiness_model", "brightness_model", "wrinkles_model",
     "texture_model"}

\* the position of a handle in the two groups of five statements of the try
\* block of _load_models
Position(name) ==
    CASE name = "dark_circles_model" -> 1
      [] name = "puffiness_model" -> 2
      [] name = "brightness_model" -> 3
      [] name = "wrinkles_model" -> 4
      [] name = "texture_model" -> 5

\* the statements of the try block: five tf.lite.Interpreter constructors,
\* then five allocate_tensors calls; 0 stands for "no statement raises"
LoadSteps == 0..10

\* mutant of LoadModels: the except clause leaves the handles as they are
LoadModelsKeepsLoaded(failed_at) ==
    [name \in ModelNames |->
        IF failed_at = 0 \/ Position(name) < failed_at THEN Some("Interpreter") ELSE None]

\* _load_models when statement failed_at of the try block raises: the except
\* clause sets the five handles to None
LoadModels(failed_at) ==
    [name \in ModelNames |-> IF failed_at = 0 THEN Some("Interpreter") ELSE None]

\* static_image_mode of the FaceMesh created by __init__
StaticImageModeOff == FALSE

StaticImageMode == TRUE

\* Core5Engine(): the handles after the one call of _load_models, and the
\* landmarks the FaceMesh tracks from one image to the next (none in static
\* image mode)
Construct(failed_at) ==
    [models |-> LoadModels(failed_at), load_calls |-> 1, failed_at |-> failed_at,
     tracked |-> None]

(***************************************************************************)
(* State: the position in analyze_image and its arguments and locals.      *)
(***************************************************************************)
VARIABLES
    engine,           \* the Core5Engine instance ai_engine of main.py
    calls,            \* the number of analyze_image calls made on it
    pc,               \* position in analyze_image; "idle" between two calls
    image_data,       \* argument: the uploaded bytes
    routine,          \* argument: the routine dictionary
    image,            \* local: the decoded image
    shape,            \* local: image.shape[:2], its height and width
    landmarks,        \* local: the landmark array
    features,         \* local: the six feature scores
    quality_metrics,  \* local: the result of _assess_analysis_quality
    lifestyle_bonus,  \* the lifestyle_bonus locals of the two score functions (centi-points)
                      \* and the min(skincare_bonus, 30) inside the skin bonus
    sleep_score,      \* local
    skin_health_score,\* local
    fun_label,        \* local
    response,         \* the AnalysisResponse returned
    error,            \* the error_code of the exception raised, "none" if none
    exception,        \* the exception raised inside the try block of analyze_image:
                      \* an error_code or the name of a Python exception class
    http              \* the detail of the HTTPException analyze_face raises

vars == <<engine, calls, pc, image_data, routine, image, shape, landmarks, features, quality_metrics,
          lifestyle_bonus, sleep_score, skin_health_score, fun_label, response, error,
          exception, http>>

NoBonus == [sleep |-> None, skin |-> None, skincare |-> None]

\* no call in progress
Idle ==
    /\ pc = "idle"
    /\ image = None /\ landmarks = None /\ features = None /\ quality_metrics = None
    /\ lifestyle_bonus = NoBonus /\ sleep_score = None /\ skin_health_score = None
    /\ fun_label = None /\ response = None /\ error = "none"
    /\ exception = "none" /\ http = None /\ shape = None

Init ==
    /\ engine \in {Construct(failed_at) : failed_at \in LoadSteps}
    /\ calls = 0
    /\ Idle
    /\ image_data = DefaultImageData
    /\ routine = << >>

\* JSON null as the value of a numeric key (Python None), written as an
\* integer outside every numeric range
JsonNull == -1000000

NumericKeys == {"sleep_hours", "water_intake", "screen_time_before_bed", "stress_level"}

\* _calculate_enhanced_lifestyle_bonus compares each numeric key with a number:
\* None > 0 raises TypeError
ComparesNone(r) == \E k \in NumericKeys : k \in DOMAIN r /\ r[k] = JsonNull

PipelineRoutines ==
    {<< >>, ScenarioRoutine, WorstHabits, "sleep_hours" :> JsonNull,
     ("sleep_hours" :> 80) @@ ("stress_level" :> JsonNull)}

\* analyze_face calls ai_engine.analyze_image(image_data, user_id, routine)
AnalyzeImage ==
    /\ pc = "idle"
    /\ calls < MaxCalls
    /\ calls' = calls + 1
    /\ image_data' \in ImageDatas
    /\ routine' \in PipelineRoutines
    /\ pc' = "start"
    /\ UNCHANGED <<engine, image, shape, landmarks, features, quality_metrics, lifestyle_bonus, sleep_score,
                   skin_health_score, fun_label, response, error,
                   exception, http>>

NamedErrors == {"NO_FACE_DETECTED", "IMAGE_PROCESSING_ERROR", "INVALID_IMAGE_FORMAT"}

\* mutant of AnalyzeImageExcept: the first except clause is missing
AnalyzeImageExceptAll(exc) == "Exception"

\* the except clauses of analyze_image: the three custom exceptions are
\* re-raised as they are, any other becomes Exception("Enhanced analysis
\* failed: ...")
AnalyzeImageExcept(exc) == IF exc \in NamedErrors THEN exc ELSE "Exception"

\* the except clauses of analyze_face, by the class of the exception that
\* left analyze_image
AnalyzeFaceExcept(exc) ==
    IF exc \in NamedErrors \cup {"ANALYSIS_ERROR"}
    THEN [status_code |-> 400, error |-> exc]
    ELSE [status_code |-> 500, error |-> "INTERNAL_ERROR"]

\* exc is raised inside the try block of analyze_image: it passes the except
\* clauses of analyze_image and of analyze_face and nothing is returned
Raise(exc) ==
    /\ exception' = exc
    /\ error' = AnalyzeImageExcept(exc)
    /\ http' = Some(AnalyzeFaceExcept(error'))
    /\ pc' = "raised"

\* cv2.imdecode(np.frombuffer(image_data, np.uint8), cv2.IMREAD_COLOR): the
\* array for an image in a supported format, None for bytes in no supported
\* format, and cv2.error for zero bytes (imdecode_ asserts !buf.empty())
Imdecode(data) ==
    CASE data.kind = "undecodable" -> "None"
      [] data.kind = "empty" -> "cv2.error"
      [] OTHER -> "array"

\* the error_code of the exception that leaves _bytes_to_cv2, "none" when it
\* returns: InvalidImageFormatError is raised for None and re-raised by the
\* except clause, every other exception becomes ImageProcessingError
BytesToCv2Error(data) ==
    IF Imdecode(data) = "None" THEN "INVALID_IMAGE_FORMAT"
    ELSE IF Imdecode(data) = "cv2.error" \/ data.kind = "raises" THEN "IMAGE_PROCESSING_ERROR"
    ELSE "none"

\* image = self._bytes_to_cv2(image_data)
BytesToCv2 ==
    /\ pc = "start"
    /\ IF BytesToCv2Error(image_data) = "none"
       THEN /\ image' = Some(image_data.content)
            /\ shape' = Some(Resized(image_data.shape))
            /\ pc' = "decoded"
            /\ UNCHANGED <<error, exception, http>>
       ELSE /\ Raise(BytesToCv2Error(image_data))
            /\ UNCHANGED <<image, shape>>
    /\ UNCHANGED <<engine, calls, image_data, routine, landmarks, features, quality_metrics, lifestyle_bonus,
                   sleep_score, skin_health_score, fun_label, response>>

\* mutant of ExtractLandmarksOf: an array is returned when no face is found
ExtractLandmarksAlways(data) == Some(data.landmarks)

\* _extract_landmarks: None when results.multi_face_landmarks is empty,
\* otherwise the array of the first face
ExtractLandmarksOf(data) == IF data.faces = 0 THEN None ELSE Some(data.landmarks)

\* self.face_mesh.process(image): in static image mode the detection runs on
\* every image, otherwise the landmarks found in the previous image are tracked
FaceMeshProcess(tracked, data) ==
    IF ~StaticImageMode /\ tracked # None THEN tracked ELSE ExtractLandmarksOf(data)

\* landmarks = self._extract_landmarks(image); if landmarks is None: raise
ExtractLandmarks ==
    /\ pc = "decoded"
    /\ landmarks' = FaceMeshProcess(engine.tracked, image_data)
    /\ engine' = [engine EXCEPT !.tracked = IF StaticImageMode THEN None ELSE landmarks']
    /\ IF landmarks' = None
       THEN Raise("NO_FACE_DETECTED")
       ELSE pc' = "landmarks" /\ UNCHANGED <<error, exception, http>>
    /\ UNCHANGED <<calls, image_data, routine, image, shape, features, quality_metrics, lifestyle_bonus,
                   sleep_score, skin_health_score, fun_label, response>>

\* _analyze_features: the six analyzers in the order of the source
AnalyzeFeaturesOf(img, lm) ==
    [dark_circles |-> AnalyzeDarkCircles(ExtractEyeRegion(img, lm)),
     puffiness |-> AnalyzePuffiness(ExtractEyeRegion(img, lm),
                                    IF UsesFaceRegion(lm) THEN img.face_puffiness
                                    ELSE img.puffiness),
     brightness |-> AnalyzeBrightness(img.face),
     wrinkles |-> AnalyzeWrinkles(img.forehead),
     texture |-> AnalyzeTexture(img.cheek),
     pore_size |-> AnalyzePoreSize(img.pore)]

\* mutant of AnalyzeFeatures: an analyzer smooths the image it is given in
\* place
AnalyzeFeaturesInPlace ==
    /\ pc = "landmarks"
    /\ IF ExtractionError(Val(landmarks)) = "none"
       THEN /\ features' = Some(AnalyzeFeaturesOf(Val(image), Val(landmarks)))
            /\ image' = Some([Val(image) EXCEPT !.laplacian_var = 0])
            /\ pc' = "features"
            /\ UNCHANGED <<error, exception, http>>
       ELSE /\ Raise(ExtractionError(Val(landmarks)))
            /\ UNCHANGED <<features, image>>
    /\ UNCHANGED <<engine, calls, image_data, routine, shape, landmarks, quality_metrics, lifestyle_bonus,
                   sleep_score, skin_health_score, fun_label, response>>

\* features = await self._analyze_features(image, landmarks)
AnalyzeFeatures ==
    /\ pc = "landmarks"
    /\ IF ExtractionError(Val(landmarks)) = "none"
       THEN /\ features' = Some(AnalyzeFeaturesOf(Val(image), Val(landmarks)))
            /\ pc' = "features"
            /\ UNCHANGED <<error, exception, http>>
       ELSE /\ Raise(ExtractionError(Val(landmarks)))
            /\ UNCHANGED features
    /\ UNCHANGED <<engine, calls, image_data, routine, image, shape, landmarks, quality_metrics, lifestyle_bonus,
                   sleep_score, skin_health_score, fun_label, response>>

\* quality_metrics = self._assess_analysis_quality(image, landmarks, features)
AssessQuality ==
    /\ pc = "features"
    /\ quality_metrics' = Some(AssessAnalysisQuality(Val(image), Val(landmarks), Val(features)))
    /\ pc' = "quality"
    /\ UNCHANGED <<engine, calls, image_data, routine, image, shape, landmarks, features, lifestyle_bonus,
                   sleep_score, skin_health_score, fun_label, response, error,
                   exception, http>>

\* mutant of CalculateSleep: the score fusion starts before the quality
\* assessment
CalculateSleepBeforeQuality ==
    /\ pc = "features"
    /\ IF ComparesNone(routine)
       THEN /\ Raise("TypeError")
            /\ UNCHANGED <<lifestyle_bonus, sleep_score>>
       ELSE /\ lifestyle_bonus' = [lifestyle_bonus EXCEPT
                                     !.sleep = Some(LifestyleBonusAdded(routine, "sleep"))]
            /\ sleep_score' = Some(CalculateSleepScore(Val(features), routine))
            /\ pc' = "sleep"
            /\ UNCHANGED <<error, exception, http>>
    /\ UNCHANGED <<engine, calls, image_data, routine, image, shape, landmarks, features, quality_metrics,
                   skin_health_score, fun_label, response>>

\* sleep_score = self._calculate_sleep_score(features, routine)
CalculateSleep ==
    /\ pc = "quality"
    /\ IF ComparesNone(routine)
       THEN /\ Raise("TypeError")
            /\ UNCHANGED <<lifestyle_bonus, sleep_score>>
       ELSE /\ lifestyle_bonus' = [lifestyle_bonus EXCEPT
                                     !.sleep = Some(LifestyleBonusAdded(routine, "sleep"))]
            /\ sleep_score' = Some(CalculateSleepScore(Val(features), routine))
            /\ pc' = "sleep"
            /\ UNCHANGED <<error, exception, http>>
    /\ UNCHANGED <<engine, calls, image_data, routine, image, shape, landmarks, features, quality_metrics,
                   skin_health_score, fun_label, response>>

\* skin_health_score = self._calculate_skin_health_score(features, routine)
CalculateSkinHealth ==
    /\ pc = "sleep"
    /\ lifestyle_bonus' = [lifestyle_bonus EXCEPT !.skin = Some(LifestyleBonusAdded(routine, "skin")),
                                                  !.skincare = Some(SkincareBonus(routine))]
    /\ skin_health_score' = Some(CalculateSkinHealthScore(Val(features), routine))
    /\ pc' = "skin"
    /\ UNCHANGED <<engine, calls, image_data, routine, image, shape, landmarks, features, quality_metrics,
                   sleep_score, fun_label, response, error,
                   exception, http>>

\* fun_label = self._generate_fun_label(sleep_score, skin_health_score)
GenerateLabel ==
    /\ pc = "skin"
    /\ fun_label' = Some(GenerateFunLabel(Val(sleep_score), Val(skin_health_score)))
    /\ pc' = "label"
    /\ UNCHANGED <<engine, calls, image_data, routine, image, shape, landmarks, features, quality_metrics,
                   lifestyle_bonus, sleep_score, skin_health_score, response, error,
                   exception, http>>

\* response = AnalysisResponse(...); return response
Respond ==
    /\ pc = "label"
    /\ response' = Some([sleep_score |-> Val(sleep_score),
                         skin_health_score |-> Val(skin_health_score),
                         features |-> Val(features),
                         routine |-> IF routine = << >> THEN None ELSE Some(routine),
                         fun_label |-> Val(fun_label),
                         confidence |-> Val(quality_metrics).overall_confidence])
    /\ pc' = "returned"
    /\ UNCHANGED <<engine, calls, image_data, routine, image, shape, landmarks, features, quality_metrics,
                   lifestyle_bonus, sleep_score, skin_health_score, fun_label, error,
                   exception, http>>

\* the call is over: its frame is gone and the engine waits for the next call
Finish ==
    /\ pc \in {"returned", "raised"}
    /\ pc' = "idle"
    /\ image' = None /\ landmarks' = None /\ features' = None /\ quality_metrics' = None
    /\ lifestyle_bonus' = NoBonus /\ sleep_score' = None /\ skin_health_score' = None
    /\ fun_label' = None /\ response' = None /\ error' = "none"
    /\ exception' = "none" /\ http' = None /\ shape' = None
    /\ UNCHANGED <<engine, calls, image_data, routine>>

Next ==
    \/ AnalyzeImage
    \/ BytesToCv2
    \/ ExtractLandmarks
    \/ AnalyzeFeatures
    \/ AssessQuality
    \/ CalculateSleep
    \/ CalculateSkinHealth
    \/ GenerateLabel
    \/ Respond
    \/ Finish

Spec == Init /\ [][Next]_vars

(***************************************************************************)
(* The analyzers on every region: the state after landmark extraction,     *)
(* for every image of AnalyzerImages.                                      *)
(***************************************************************************)
InitAnalyzers ==
    /\ engine = Construct(1)
    /\ calls = 1
    /\ pc = "landmarks"
    /\ image_data \in
              [kind : {"image"}, faces : {1}, content : AnalyzerImages,
               landmarks : {FaceLandmarks}, shape : {<<300, 300>>}]
         \cup [kind : {"image"}, faces : {1}, content : PipelineImages \cup {OffFrameImage},
               landmarks : KeypointSets, shape : {<<300, 300>>}]
    /\ routine = << >>
    /\ image = Some(image_data.content)
    /\ shape = Some(Resized(image_data.shape))
    /\ landmarks = Some(image_data.landmarks)
    /\ features = None /\ quality_metrics = None
    /\ lifestyle_bonus = NoBonus /\ sleep_score = None /\ skin_health_score = None
    /\ fun_label = None /\ response = None /\ error = "none"
    /\ exception = "none" /\ http = None

NextAnalyzers == AnalyzeFeatures \/ AssessQuality

SpecAnalyzers == InitAnalyzers /\ [][NextAnalyzers]_vars

(***************************************************************************)
(* The score fusion on every feature record and routine: the state after   *)
(* quality assessment.                                                     *)
(***************************************************************************)
InitFusion ==
    /\ engine = Construct(1)
    /\ calls = 1
    /\ pc = "quality"
    /\ image_data = DefaultImageData
    /\ \/ features \in {Some(f) : f \in FeatureRecords} /\ routine \in FusionRoutines
       \/ features \in {Some(AllEqual(v)) : v \in {0, 700, 1000}} /\ routine \in Routines
    /\ image = Some(image_data.content)
    /\ shape = Some(Resized(image_data.shape))
    /\ landmarks = Some(image_data.landmarks)
    /\ quality_metrics = Some(AssessAnalysisQuality(Val(image), Val(landmarks), Val(features)))
    /\ lifestyle_bonus = NoBonus /\ sleep_score = None /\ skin_health_score = None
    /\ fun_label = None /\ response = None /\ error = "none"
    /\ exception = "none" /\ http = None

NextFusion == CalculateSleep \/ CalculateSkinHealth \/ GenerateLabel \/ Respond

SpecFusion == InitFusion /\ [][NextFusion]_vars

(***************************************************************************)
(* The quality assessor on every feature dictionary a caller can pass: the *)
(* state after feature analysis.                                           *)
(***************************************************************************)
\* dictionaries of feature scores: all six keys, one key, or none
FeatureDicts ==
    FeatureRecords \cup {"dark_circles" :> v : v \in ScoreLevels} \cup {<< >>}

InitConsistency ==
    /\ engine = Construct(1)
    /\ calls = 1
    /\ pc = "features"
    /\ image_data = DefaultImageData
    /\ routine = << >>
    /\ image = Some(image_data.content)
    /\ shape = Some(Resized(image_data.shape))
    /\ landmarks = Some(image_data.landmarks)
    /\ features \in {Some(f) : f \in FeatureDicts}
    /\ quality_metrics = None
    /\ lifestyle_bonus = NoBonus /\ sleep_score = None /\ skin_health_score = None
    /\ fun_label = None /\ response = None /\ error = "none"
    /\ exception = "none" /\ http = None

NextConsistency == AssessQuality

SpecConsistency == InitConsistency /\ [][NextConsistency]_vars

C2_IndicesInRange ==
    /\ sleep_score # None => Val(sleep_score) \in 0..100
    /\ skin_health_score # None => Val(skin_health_score) \in 0..100

\* the clip acts on both indices: base score 100 plus a positive bonus
C2_Witness ==
    /\ skin_health_score # None
    /\ Val(features) = AllEqual(1000)
    /\ Val(lifestyle_bonus.sleep) > 0 /\ Val(lifestyle_bonus.skin) > 0
    /\ Val(sleep_score) = 100 /\ Val(skin_health_score) = 100

\* the end-to-end scenario: 9 hours of sleep, 10 glasses, all scores 70
C3_Scenario ==
    /\ skin_health_score # None
    /\ routine = ScenarioRoutine
    /\ Val(features) = AllEqual(700)

\* C3 as stated: in the scenario each index receives exactly +10 and both
\* equal 80.
C3_Original ==
    C3_Scenario =>
        /\ Val(lifestyle_bonus.sleep) = 1000 /\ Val(lifestyle_bonus.skin) = 1000
        /\ Val(sleep_score) = 80 /\ Val(skin_health_score) = 80

\* C3 amended: in the scenario the raw bonus 45 is scaled by 0.1 to 4.5, which
\* min(10, .) leaves alone; each index receives +4.5 and both equal 74.
C3_ScaledBonus ==
    C3_Scenario =>
        /\ CalculateEnhancedLifestyleBonus(routine, "sleep") = 45
        /\ CalculateEnhancedLifestyleBonus(routine, "skin") = 45
        /\ Val(lifestyle_bonus.sleep) = 450 /\ Val(lifestyle_bonus.skin) = 450
        /\ Val(sleep_score) = 74 /\ Val(skin_health_score) = 74

C3_Witness == C3_Scenario /\ Val(sleep_score) = 74

C5_BonusBounded ==
    /\ lifestyle_bonus.sleep # None => Val(lifestyle_bonus.sleep) <= 1000
    /\ lifestyle_bonus.skin # None => Val(lifestyle_bonus.skin) <= 1000
    /\ lifestyle_bonus.skincare # None => Val(lifestyle_bonus.skincare) <= 30

\* the cap of 30 acts: the ingredients add up to more than 30
C5_Witness ==
    /\ lifestyle_bonus.skincare = Some(30)
    /\ RawSkincareBonus(Get(routine, "skincare_products", << >>),
                        Get(routine, "product_used", << >>)) > 30

\* the ingredient categories whose keywords occur in a product entry
CategoriesOf(product_id) ==
    LET t == LowerText(product_id)
    IN     {c \in {"sunscreen", "azelaic", "moisturizer", "serum", "cleanser", "toner", "mask"} :
               Contains(t, c)}
      \cup (IF ContainsAny(t, {"retinol", "tretinoin"}) THEN {"retinol"} ELSE {})
      \cup (IF ContainsAny(t, {"vitamin_c", "vitamin c", "ascorbic"}) THEN {"vitamin_c"} ELSE {})
      \cup (IF ContainsAny(t, {"hyaluronic", "ha_serum"}) THEN {"hyaluronic"} ELSE {})
      \cup (IF ContainsAny(t, {"niacinamide", "nicotinamide"}) THEN {"niacinamide"} ELSE {})
      \cup (IF ContainsAny(t, {"peptide", "copper_peptide"}) THEN {"peptide"} ELSE {})
      \cup (IF ContainsAny(t, {"aha", "alpha_hydroxy", "glycolic", "lactic"}) THEN {"aha"} ELSE {})
      \cup (IF ContainsAny(t, {"bha", "beta_hydroxy", "salicylic"}) THEN {"bha"} ELSE {})

Front(s) == SubSeq(s, 1, Len(s) - 1)

\* C6: a product entry whose ingredient categories all occur in earlier
\* entries of the list adds nothing: the skincare bonus of the list equals the
\* skincare bonus of the list without its last entry.
C6_CountedOnce ==
    (/\ lifestyle_bonus.skincare # None
     /\ Len(Get(routine, "skincare_products", << >>)) >= 2) =>
        LET products == routine["skincare_products"]
            earlier == Front(products)
        IN  CategoriesOf(products[Len(products)])
                \subseteq UNION {CategoriesOf(earlier[i]) : i \in DOMAIN earlier}
            => Val(lifestyle_bonus.skincare)
                 = Min(RawSkincareBonus(earlier, Get(routine, "product_used", << >>)), 30)

\* routine r with its two skincare keys replaced by those of s
WithSkincare(r, s) ==
    s @@ [k \in DOMAIN r \ {"skincare_products", "product_used"} |-> r[k]]

SkincareAlternatives ==
    {<< >>,
     "skincare_products" :> <<<<"Retinol">>, <<"Sunscreen">>>>,
     "product_used" :> <<"Vitamin C", "Serum">>,
     ("skincare_products" :> <<<<"moisturizer">>>>) @@ ("product_used" :> <<"retinol">>)}

\* C7: the rest index depends only on dark_circles, puffiness, brightness and
\* the routine fields other than skincare_products and product_used: any
\* input that differs from the current one only in wrinkles, texture,
\* pore_size and the two skincare fields has the same rest index.
C7_RestIndexDependsOnlyOn ==
    sleep_score # None =>
        \A w, t, p \in {0, 1000} : \A s \in SkincareAlternatives :
            CalculateSleepScore([Val(features) EXCEPT !.wrinkles = w, !.texture = t, !.pore_size = p],
                                WithSkincare(routine, s))
              = Val(sleep_score)

\* a rest index computed for a routine with a skincare bonus and with
\* wrinkles, texture and pore_size different from the three rest features
C7_Witness ==
    /\ sleep_score # None
    /\ SkincareBonus(routine) > 0
    /\ Val(features).wrinkles # Val(features).dark_circles
    /\ Val(features).texture # Val(features).puffiness
    /\ Val(features).pore_size # Val(features).brightness

Labels == <<"Focus Time", "Needs Care", "Getting There", "Glow Up", "Glow Queen">>

Rank(label) ==
    CASE label = Labels[1] -> 1
      [] label = Labels[2] -> 2
      [] label = Labels[3] -> 3
      [] label = Labels[4] -> 4
      [] label = Labels[5] -> 5

\* C8: the label is determined by the average of the two indices through the
\* five bands >= 80, >= 70, >= 50, >= 30 and below 30, one label each, and a
\* higher average never gets a lower band.
C8_LabelBands ==
    fun_label # None =>
        LET twice == Val(sleep_score) + Val(skin_health_score)
        IN  /\ Val(fun_label) \in {Labels[i] : i \in DOMAIN Labels}
            /\ Val(fun_label) = "Glow Queen" <=> twice >= 160
            /\ Val(fun_label) = "Glow Up" <=> (twice >= 140 /\ twice < 160)
            /\ Val(fun_label) = "Getting There" <=> (twice >= 100 /\ twice < 140)
            /\ Val(fun_label) = "Needs Care" <=> (twice >= 60 /\ twice < 100)
            /\ Val(fun_label) = "Focus Time" <=> twice < 60
            /\ \A a \in 0..100 : \A b \in {0, 100} :
                  /\ a + b >= twice => Rank(GenerateFunLabel(a, b)) >= Rank(Val(fun_label))
                  /\ a + b <= twice => Rank(GenerateFunLabel(a, b)) <= Rank(Val(fun_label))

\* a label for an average in the lower half of the 70 band
C8_Witness ==
    /\ fun_label = Some("Glow Up")
    /\ Val(sleep_score) + Val(skin_health_score) < 150

\* C9: the four quality sub-scores are in [0,1], overall_confidence is
\* 0.25*sharpness + 0.25*lighting + 0.3*detection + 0.2*consistency clamped
\* to [0,1], and the response carries that value as its confidence.
C9_Confidence ==
    /\ quality_metrics # None =>
         LET q == Val(quality_metrics)
         IN  /\ q.image_sharpness \in 0..QUnit
             /\ q.lighting_quality \in 0..QUnit
             /\ q.face_detection_confidence \in 0..QUnit
             /\ q.feature_consistency \in 0..QUnit
             /\ q.overall_confidence
                  = Clip(5 * q.image_sharpness + 5 * q.lighting_quality
                           + 6 * q.face_detection_confidence + 4 * q.feature_consistency,
                         0, 20 * QUnit)
    /\ response # None => Val(response).confidence = Val(quality_metrics).overall_confidence

\* a response for an image whose Laplacian variance is above the divisor 500
C9_Witness ==
    /\ response # None
    /\ Val(image).laplacian_var > 500
    /\ Val(quality_metrics).image_sharpness = QUnit

\* C10: when the detector finds no face, analyze_image raises
\* NoFaceDetectedError: no analyzer, quality assessment or score fusion runs
\* and no response is produced.
C10_NoFaceAborts ==
    /\ (image_data.kind = "image" /\ image_data.faces = 0
          /\ pc \notin {"idle", "start", "decoded"})
         => (pc = "raised" /\ error = "NO_FACE_DETECTED")
    /\ error = "NO_FACE_DETECTED" =>
         /\ image_data.faces = 0
         /\ landmarks = None /\ features = None /\ quality_metrics = None
         /\ sleep_score = None /\ skin_health_score = None /\ fun_label = None
         /\ response = None

\* the image was decoded, no face was found and the call has raised
C10_Witness ==
    /\ pc = "raised"
    /\ error = "NO_FACE_DETECTED"
    /\ image # None
    /\ image_data.faces = 0

\* C11: bytes that do not decode to an image, zero bytes included, make
\* analyze_image raise InvalidImageFormatError, and nothing after the decoding
\* step has run: no landmarks, no features.
C11_InvalidBytesReported ==
    (image_data.kind \in {"undecodable", "empty"} /\ pc \notin {"idle", "start"}) =>
        /\ pc = "raised"
        /\ error = "INVALID_IMAGE_FORMAT"
        /\ image = None /\ landmarks = None /\ features = None

\* C12: a call fails exactly when analyze_face reports one of the four
\* outcomes NO_FACE_DETECTED, INVALID_IMAGE_FORMAT, IMAGE_PROCESSING_ERROR
\* (status 400) and INTERNAL_ERROR (status 500); one of the three custom
\* exceptions is reported under its own error code and every other exception
\* raised inside analyze_image as INTERNAL_ERROR.
C12_FourOutcomes ==
    /\ (pc = "raised") = (http # None)
    /\ http # None =>
         /\ response = None
         /\ Val(http).error \in NamedErrors \cup {"INTERNAL_ERROR"}
         /\ exception \in NamedErrors =>
              Val(http) = [status_code |-> 400, error |-> exception]
         /\ exception \notin NamedErrors =>
              Val(http) = [status_code |-> 500, error |-> "INTERNAL_ERROR"]

\* a TypeError raised by the score fusion has been reported
C12_Witness ==
    /\ pc = "raised"
    /\ exception = "TypeError"
    /\ features # None
    /\ Val(http).error = "INTERNAL_ERROR"

\* the landmark indices a named region requires
Required(region) ==
    CASE region = "eye" -> EyeIndices
      [] region = "forehead" -> ForeheadIndices
      [] region = "cheek" -> CheekIndices
      [] region = "pore" -> PoreIndices

\* C13: when the keypoint set contains none of the indices of a named region
\* (eye, forehead, cheek, pore), the feature analysis does not raise: it
\* returns the six scores, those of the region being computed on the face
\* region.
C13_RegionFallback ==
    \A region \in {"eye", "forehead", "cheek", "pore"} :
        (/\ landmarks # None
         /\ Val(landmarks).points > 0
         /\ ValidIndices(Required(region), Val(landmarks)) = {}
         /\ pc # "landmarks") =>
            /\ exception = "none"
            /\ features # None

\* C14: when the height or the width of the decoded image is below 200, the
\* image is resized so that its shorter side is at least 200 and no side is
\* shorter than before; otherwise its size is unchanged.
C14_UpscaledTo200 ==
    shape # None =>
        LET h == image_data.shape[1]
            w == image_data.shape[2]
            new_h == Val(shape)[1]
            new_w == Val(shape)[2]
        IN  IF h < 200 \/ w < 200
            THEN Min(new_h, new_w) >= 200 /\ new_h >= h /\ new_w >= w
            ELSE new_h = h /\ new_w = w

\* what analyze_image returns for an image and a routine, computed from the
\* two arguments alone
ResponseOf(data, r) ==
    LET feats == AnalyzeFeaturesOf(data.content, data.landmarks)
        sleep == CalculateSleepScore(feats, r)
        skin == CalculateSkinHealthScore(feats, r)
    IN  [sleep_score |-> sleep,
         skin_health_score |-> skin,
         features |-> feats,
         routine |-> IF r = << >> THEN None ELSE Some(r),
         fun_label |-> GenerateFunLabel(sleep, skin),
         confidence |-> AssessAnalysisQuality(data.content, data.landmarks, feats).overall_confidence]

\* C15: the six feature scores, the two indices, the label and the confidence
\* that a call returns are those determined by its image and its routine,
\* whatever calls the engine has served before and however its models were
\* loaded; the same holds for the failure it reports.
C15_Idempotent ==
    /\ response # None => Val(response) = ResponseOf(image_data, routine)
    /\ pc = "raised" =>
         exception = (IF BytesToCv2Error(image_data) # "none" THEN BytesToCv2Error(image_data)
                      ELSE IF ExtractLandmarksOf(image_data) = None THEN "NO_FACE_DETECTED"
                      ELSE IF ExtractionError(image_data.landmarks) # "none"
                           THEN ExtractionError(image_data.landmarks)
                      ELSE "TypeError")

\* the second call on an engine has returned a response
C15_Witness ==
    /\ calls = 2
    /\ response # None
    /\ routine # << >>

\* C16: _load_models has run once, in the constructor, and no step of
\* analyze_image runs it or changes a model handle; when a statement of its
\* try block raised, the five handles are None, and they stay None; the
\* feature scores are those of the heuristic analyzers.
C16_LoadedOnce ==
    /\ [](/\ engine.load_calls = 1
          /\ engine.failed_at # 0 => \A name \in ModelNames : engine.models[name] = None
          /\ features # None =>
               Val(features) = AnalyzeFeaturesOf(Val(image), Val(landmarks)))
    /\ [][engine'.models = engine.models /\ engine'.load_calls = engine.load_calls]_vars

\* a response from an engine whose third Interpreter constructor raised
C16_Witness ==
    /\ engine.failed_at = 3
    /\ calls = 2
    /\ response # None
    /\ \A name \in ModelNames : engine.models[name] = None

\* a call with a uniform 300x300 image of grey level g, a face found and no
\* routine has computed its feature scores
UniformScenario(g) ==
    /\ features # None
    /\ image_data.content = UniformImage(g, g)
    /\ image_data.shape = <<300, 300>>
    /\ image_data.landmarks.points = 478
    /\ routine = << >>

\* C17 as stated: for the all-black image the brightness score is near 15 and
\* the dark_circles score near 25, near meaning within 5 points.
C17_Original ==
    UniformScenario(0) =>
        /\ Val(features).brightness \in 150..200
        /\ Val(features).dark_circles \in 250..300

\* C17 amended: for the all-black image the brightness score is 43.0 and the
\* dark_circles score 40.0; only the mean-brightness term is 0, the other
\* terms are at the maximum a uniform region gives, and the variation terms
\* subtract 6 and 10.
C17_BlackScores ==
    UniformScenario(0) =>
        /\ Val(features).brightness = 430
        /\ Val(features).dark_circles = 400

\* the all-black call has returned
C17_Witness == UniformScenario(0) /\ response # None

\* C18: for the all-white image the dark_circles score is its upper clamp 90,
\* the brightness score its upper clamp 95, and both indices are above 50.
C18_WhiteScores ==
    UniformScenario(255) =>
        /\ Val(features).dark_circles = 900
        /\ Val(features).brightness = 950
        /\ sleep_score # None => Val(sleep_score) > 50
        /\ skin_health_score # None => Val(skin_health_score) > 50

\* the all-white call has returned, both weighted sums were above their clamp
C18_Witness ==
    /\ UniformScenario(255)
    /\ response # None
    /\ DarkCirclesRaw(Val(image).eye) > 9000
    /\ BrightnessRaw(Val(image).face) > 9500

\* eye region a differs from eye region b only in that pixels of its lower
\* part (the bottom 40% of the rows) are darker
DarkerLowerPart(a, b) ==
    /\ Len(a) = Len(b)
    /\ a # b
    /\ \A i \in DOMAIN a :
          IF i <= (Len(a) * 6) \div 10
          THEN a[i] = b[i]
          ELSE \A j \in DOMAIN a[i] : a[i][j] <= b[i][j]

\* C19: an eye region whose lower part is darker than that of the analysed
\* eye region, and which is equal to it elsewhere, has a dark_circles score
\* that is not higher.
C19_DarkCirclesMonotone ==
    (features # None /\ ~UsesFaceRegion(Val(landmarks))) =>
        \A darker \in EyeRegions :
            DarkerLowerPart(darker, Val(image).eye) =>
                AnalyzeDarkCircles(darker) <= Val(features).dark_circles

\* cheek measurements a are those of a region with more high-frequency noise
\* than b: larger gradient, second-derivative variance and standard deviation,
\* and no other measurement smaller
Noisier(a, b) ==
    /\ ~a.empty /\ ~b.empty
    /\ a.avg_gradient > b.avg_gradient
    /\ a.laplacian_variance > b.laplacian_variance
    /\ a.std_dev > b.std_dev
    /\ a.max_gradient >= b.max_gradient
    /\ a.laplacian_mean >= b.laplacian_mean
    /\ a.lbp_variance >= b.lbp_variance
    /\ a.gabor_variance >= b.gabor_variance

\* C20: a cheek region with more high-frequency noise than the analysed cheek
\* region has a texture score that is not higher, and a lower one when the
\* analysed region is uniform.
C20_TextureMonotone ==
    features # None =>
        \A noisy \in TextureMeasures :
            Noisier(noisy, Val(image).cheek) =>
                /\ AnalyzeTexture(noisy) <= Val(features).texture
                /\ Val(image).cheek = FlatTexture =>
                     AnalyzeTexture(noisy) < Val(features).texture

\* face measurements a are those of a region with a higher mean lightness than
\* b and the same standard deviation, hue and saturation variance and number
\* of histogram peaks
Brighter(a, b) ==
    /\ ~a.empty /\ ~b.empty
    /\ a.mean_brightness > b.mean_brightness
    /\ a.brightness_std = b.brightness_std
    /\ a.h_variance = b.h_variance
    /\ a.s_variance = b.s_variance
    /\ a.brightness_peaks = b.brightness_peaks

\* C21: a face region with a strictly higher mean lightness than the analysed
\* face region, and the same lightness standard deviation, hue and saturation
\* variance and peak count, has a brightness score that is not lower.
C21_BrightnessMonotone ==
    features # None =>
        \A brighter \in BrightnessMeasures :
            Brighter(brighter, Val(image).face) =>
                AnalyzeBrightness(brighter) >= Val(features).brightness

\* a face region scored inside the clamp band for which a brighter region
\* scores strictly higher
C21_Witness ==
    /\ features # None
    /\ ~Val(image).face.empty
    /\ Val(features).brightness \in 151..949
    /\ \E brighter \in BrightnessMeasures :
          /\ Brighter(brighter, Val(image).face)
          /\ AnalyzeBrightness(brighter) > Val(features).brightness

\* the fields a routine provides: a numeric key whose value is JSON null
\* (None, the default of every field of RoutineData) is absent
PresentFields(r) == {k \in DOMAIN r : k \notin NumericKeys \/ r[k] # JsonNull}

\* the keys each block of _calculate_enhanced_lifestyle_bonus reads; the
\* skincare block reads the product list and the legacy text together
FieldGroups ==
    {{"sleep_hours"}, {"water_intake"}, {"skincare_products", "product_used"},
     {"screen_time_before_bed"}, {"alcohol_consumed"}, {"exercise_today"}, {"stress_level"}}

\* what the present fields of one group add on their own: the bonus of the
\* routine that has these fields only
FieldContribution(r, group, score_type) ==
    CalculateEnhancedLifestyleBonus([k \in group \cap PresentFields(r) |-> r[k]], score_type)

RECURSIVE SumContributions(_, _, _)
SumContributions(r, groups, score_type) ==
    IF groups = {}
    THEN 0
    ELSE LET g == CHOOSE group \in groups : TRUE
         IN  FieldContribution(r, g, score_type) + SumContributions(r, groups \ {g}, score_type)

\* C22: every routine field is optional: the score fusion does not raise
\* whatever fields are absent, the bonus added to either index is min(10, .)
\* of 0.1 times the sum of the contributions of the fields that are present,
\* and it is 0 for the empty routine.
C22_AbsentFieldsContributeZero ==
    /\ exception # "TypeError"
    /\ lifestyle_bonus.sleep # None =>
         /\ Val(lifestyle_bonus.sleep)
              = Min(1000, 10 * SumContributions(routine, FieldGroups, "sleep"))
         /\ PresentFields(routine) = {} => Val(lifestyle_bonus.sleep) = 0
    /\ lifestyle_bonus.skin # None =>
         /\ Val(lifestyle_bonus.skin)
              = Min(1000, 10 * SumContributions(routine, FieldGroups, "skin"))
         /\ PresentFields(routine) = {} => Val(lifestyle_bonus.skin) = 0

\* the positions of analyze_image in the order of its statements: a position
\* is named after the step that has just completed
Steps == <<"start", "decoded", "landmarks", "features", "quality", "sleep", "skin", "label",
           "returned">>

StepRank(p) == CHOOSE i \in DOMAIN Steps : Steps[i] = p

\* the results of the steps, in the order in which analyze_image assigns them
StepResults ==
    <<image, landmarks, features, quality_metrics, sleep_score, skin_health_score, fun_label,
      response>>

\* C23: the steps of analyze_image run in the order decoding, landmark
\* extraction, feature analysis, quality assessment, score fusion (rest index,
\* then skin index), label, response: at every position exactly the results of
\* the steps before it exist, each step moves to the next position or fails,
\* a failing step leaves no result, and after a failure no step runs and no
\* response exists.
C23_StepOrder ==
    /\ [](/\ pc \in {Steps[i] : i \in DOMAIN Steps} =>
               \A i \in DOMAIN StepResults : (StepResults[i] # None) = (i < StepRank(pc))
          /\ pc = "raised" =>
               /\ response = None
               /\ http # None
               /\ \A i \in 1..(Len(StepResults) - 1) :
                     StepResults[i + 1] # None => StepResults[i] # None)
    /\ [][/\ (pc \in {Steps[i] : i \in DOMAIN Steps} /\ pc' # pc) =>
               IF pc = "returned" THEN pc' = "idle"
               ELSE pc' = "raised" \/ pc' = Steps[StepRank(pc) + 1]
          /\ (pc' = "raised" /\ pc # "raised") => StepResults' = StepResults
          /\ pc = "raised" => pc' \in {"raised", "idle"}]_vars

\* the score fusion has failed after the quality assessment, in the second call
C23_Witness ==
    /\ pc = "raised"
    /\ calls = 2
    /\ quality_metrics # None
    /\ sleep_score = None

\* C24: when the box of a named region is empty, the score of its analyzer is
\* the one computed on the whole-face region, and the neutral 50.0 only when
\* the whole-face region is empty too; the feature analysis does not raise.
C24_ZeroAreaFallback ==
    /\ (landmarks # None /\ ExtractionError(Val(landmarks)) = "none" /\ pc # "landmarks") =>
          exception = "none" /\ features # None
    /\ features # None =>
          LET img == Val(image)
              f == Val(features)
          IN  /\ Val(landmarks).eye_box = "empty" =>
                   /\ f.dark_circles = AnalyzeDarkCircles(img.face_gray)
                   /\ f.puffiness = AnalyzePuffiness(img.face_gray, img.face_puffiness)
              /\ img.forehead.empty => f.wrinkles = AnalyzeWrinkles(img.face_wrinkles)
              /\ img.cheek.empty => f.texture = AnalyzeTexture(img.face_texture)
              /\ img.pore.empty => f.pore_size = AnalyzePoreSize(img.face_pore)

\* the variation terms (variation_factor - 0.5) * k that the analyzers add to
\* their weighted sums, in hundredths
DarkCirclesVariation(eye_region) ==
    LET px == Flatten(LowerPart(eye_region))
    IN  (MeanC(px) + StdC(px) + VarC(px)) \div 50 - 1000

PuffinessVariation(eye_region, cv) ==
    LET px == Flatten(LowerPart(eye_region))
    IN  (3 * (VarC(px) + cv.avg_gradient + 100 * cv.laplacian_variance)) \div 100 - 750

BrightnessVariation(m) ==
    (12 * (m.mean_brightness + m.brightness_std + m.h_variance + m.s_variance)) \div 10 - 600

WrinklesVariation(m) ==
    (18 * (1000 * (m.texture_variance + m.avg_gradient)
             + m.edge_density_canny + m.edge_density_sobel)) \div 10000 - 900

TextureVariation(m) ==
    (15 * (m.avg_gradient + m.laplacian_variance + m.std_dev + m.lbp_variance
             + m.gabor_variance)) \div 10 - 750

PoreSizeVariation(m) ==
    LET total_pores == Len(m.pores)
        avg_pore_size == IF total_pores > 0 THEN (100 * SumSeq(m.pores)) \div total_pores ELSE 0
        pore_density == (total_pores * 1000000) \div m.region_area
    IN  (12 * (pore_density + avg_pore_size + 100 * m.texture_variance
                 + 100 * m.avg_gradient)) \div 1000 - 600

\* C25: for every region that is analysed, the variation term added to the
\* weighted sum is within the amount stated at its line: 10 points for
\* dark_circles, 7.5 for puffiness, 6 for brightness, 9 for wrinkles, 7.5 for
\* texture and 6 for pore_size.
C25_VariationBounded ==
    features # None =>
        LET img == Val(image)
            eye == ExtractEyeRegion(img, Val(landmarks))
            cv == IF UsesFaceRegion(Val(landmarks)) THEN img.face_puffiness ELSE img.puffiness
        IN  /\ Size(eye) > 0 =>
                 /\ DarkCirclesVariation(eye) \in -1000..1000
                 /\ PuffinessVariation(eye, cv) \in -750..750
            /\ ~img.face.empty => BrightnessVariation(img.face) \in -600..600
            /\ ~img.forehead.empty => WrinklesVariation(img.forehead) \in -900..900
            /\ ~img.cheek.empty => TextureVariation(img.cheek) \in -750..750
            /\ ~img.pore.empty => PoreSizeVariation(img.pore) \in -600..600

\* a sequence without its i-th element
RemoveAt(values, i) == SubSeq(values, 1, i - 1) \o SubSeq(values, i + 1, Len(values))

\* the number of values whose z-score against the mean and the standard
\* deviation of the other values exceeds 3: for the n others with sum S and
\* sum of squares Q,  |v - mean| > 3 * std  iff  (n*v - S)^2 > 9 * (n*Q - S^2)
OutliersAgainstOthers(values) ==
    Cardinality({i \in DOMAIN values :
        LET others == RemoveAt(values, i)
            n == Len(others)
            S == SumSeq(others)
            D == n * SumSquares(others) - S * S
        IN  (n * values[i] - S) * (n * values[i] - S) > 9 * D})

\* C26: feature_consistency is 1 minus the fraction of the six feature scores
\* whose z-score, taken against the mean and the spread of the other five
\* scores, exceeds 3.
C26_ConsistencyAgainstOthers ==
    quality_metrics # None =>
        Val(quality_metrics).feature_consistency
          = QUnit - (OutliersAgainstOthers(FeatureValues(Val(features))) * QUnit) \div 6

\* C27: the region extractors, the six analyzers and the quality assessor
\* leave the decoded image and the landmark array as they are: the two steps
\* that read them do not change them, and as long as they exist they hold what
\* decoding and landmark extraction produced.
C27_InputsNotMutated ==
    /\ [](/\ image # None => image = Some(image_data.content)
          /\ landmarks # None => landmarks = Some(image_data.landmarks))
    /\ [][/\ pc \in {"landmarks", "features"} => image' = image
          /\ pc \in {"landmarks", "features"} => landmarks' = landmarks]_vars

\* the quality assessor has run after the analyzers, on the blurred portrait
\* whose forehead box is empty
C27_Witness ==
    /\ pc = "quality"
    /\ Val(image) = BlurredImage
    /\ Val(features).wrinkles = NoRegionScore
    /\ Val(quality_metrics).image_sharpness < QUnit

\* C28: for an empty dictionary of feature scores the feature consistency is
\* a number between 0 and 1, not a not-a-number, and the quality assessment
\* does not raise.
C28_EmptyScoresNeutral ==
    (quality_metrics # None /\ DOMAIN Val(features) = {}) =>
        /\ Val(quality_metrics).feature_consistency # NaN
        /\ Val(quality_metrics).feature_consistency \in 0..QUnit
        /\ exception = "none"

\* C29: what is added to the rest index is 0.1 times the raw bonus and lies in
\* [-7.2, 6.1], what is added to the skin index is 0.1 times the raw bonus and
\* lies in [-7.2, 9.1]: min(10, .) never changes the value.
C29_ScaledBonusRange ==
    /\ lifestyle_bonus.sleep # None =>
         /\ Val(lifestyle_bonus.sleep) \in -720..610
         /\ Val(lifestyle_bonus.sleep) = 10 * CalculateEnhancedLifestyleBonus(routine, "sleep")
    /\ lifestyle_bonus.skin # None =>
         /\ Val(lifestyle_bonus.skin) \in -720..910
         /\ Val(lifestyle_bonus.skin) = 10 * CalculateEnhancedLifestyleBonus(routine, "skin")

\* both upper ends are reached: the best habits with a skincare bonus at its
\* cap of 30
C29_Witness ==
    /\ lifestyle_bonus.sleep = Some(610)
    /\ lifestyle_bonus.skin = Some(910)
    /\ lifestyle_bonus.skincare = Some(30)

\* C30: for six feature scores the feature consistency is exactly 1.0, no
\* score being an outlier against the mean and the standard deviation of all
\* six, and it adds the constant 0.2 to the overall confidence.
C30_ConsistencyAlwaysOne ==
    (quality_metrics # None /\ DOMAIN Val(features) = {FeatureNames[i] : i \in DOMAIN FeatureNames}) =>
        LET q == Val(quality_metrics)
        IN  /\ Outliers(FeatureValues(Val(features))) = 0
            /\ q.feature_consistency = QUnit
            /\ q.overall_confidence
                 = Min(5 * q.image_sharpness + 5 * q.lighting_quality
                         + 6 * q.face_detection_confidence + 4 * QUnit, 20 * QUnit)

\* five equal scores and one at the other end of the scale: the largest
\* z-score six values can have
C30_Witness ==
    /\ quality_metrics # None
    /\ features = Some([AllEqual(0) EXCEPT !.texture = 1000])
    /\ Val(quality_metrics).feature_consistency = QUnit

====
